---- MODULE Spec2Model ----
(***************************************************************************)
(* Clause-based predicate dispatch (predicate.py): three decorators that   *)
(* register (guard, body) clauses under a function name and return one     *)
(* wrapper per name.  The wrapper walks the clause list in registration    *)
(* order under one of three strategies:                                    *)
(*   predicate  - OrElse: first clause whose body completes wins           *)
(*   principles - StrictAll: every guard and body must succeed             *)
(*   p_prolog   - Backtracking: drain generator bodies, honour the cut     *)
(* An invocation is modelled statement group by statement group; `log` is  *)
(* the effect log of the guard evaluations and body runs it performed.     *)
(***************************************************************************)
EXTENDS Integers, Sequences, FiniteSets, TLC

(* ------------------------------ bounds --------------------------------- *)
\* number of clauses a generic script registers under its name
MaxClauses == 3

\* number of clauses the script that mixes the decorators registers
MaxMixedClauses == 2

\* fizzbuzz is called with 1..FizzMax (the script goes up to 199)
FizzMax == 30

\* the script that nests calls goes down to this depth
MaxDepth == 2

\* number of clauses a generic script registers when its caller makes
\* calls back to back
MaxRepeatClauses == 2

(* ------------------------------ values --------------------------------- *)
\* Python values are tagged with their type so that isinstance() is a test
IntV(n) == [t |-> "int", v |-> n]
StrV(n) == [t |-> "str", v |-> n]   \* a string, abstracted to its length

\* a list of integers, named by its row in ListContents
ListV(n) == [t |-> "list", v |-> n]

\* src/p_prolog.py:109, 120, 139  the lists the script passes
ListContents(n) ==
    CASE n = 1 -> <<2, 3, 4>>
      [] n = 2 -> <<1, 3, 2, 7, 9, 5, 4, 11>>
      [] n = 3 -> <<1, 2, 3, 4>>

\* a float, kept as its number of tenths: 6.5 is FloatV(65)
FloatV(n) == [t |-> "float", v |-> n]

\* src/predicate_example.py:123  my_list = [1, 2, -3, 4, -5.0, 6]
MyList == <<IntV(1), IntV(2), IntV(-3), IntV(4), FloatV(-50), IntV(6)>>

\* the elements of the lists that are not rows of ListContents
\* src/p_prolog.py:43-70  rows 5 to 9 are the lists passed to find_path;
\* row 7 is the list nested in row 6, [1, [2, 3], 4]
ListElements(n) ==
    CASE n = 4 -> MyList
      [] n = 5 -> <<IntV(1), IntV(2), IntV(5), IntV(8)>>
      [] n = 6 -> <<IntV(1), ListV(7), IntV(4)>>
      [] n = 7 -> <<IntV(2), IntV(3)>>
      [] n = 8 -> <<IntV(1), IntV(2)>>
      [] n = 9 -> <<IntV(10)>>

\* the tuple (item, index)
PairV(item, index) == [t |-> "pair", v |-> 100 * item + index]

\* a text, named by its row in TextContents
TextV(n) == [t |-> "text", v |-> n]

\* a text as the sequence of its parts: the openings of a fenced block
\* "json", "python", "javascript", a bare fence "fence", the braces and
\* any other stretch of characters "chars"
\* src/filters.py:83-98  rows 1 and 2 are valuepython and valuejson
TextContents(n) ==
    CASE n = 1 -> <<"chars", "python", "chars", "fence", "chars">>
      [] n = 2 -> <<"chars", "json", "{", "chars", "}", "fence", "chars">>
      [] n = 3 -> <<"chars">>
      [] n = 4 -> <<"json", "chars">>
      [] n = 5 -> <<"chars", "{", "chars", "}">>
      [] n = 6 -> <<"javascript", "chars", "json", "chars", "json", "chars", "fence">>
      [] n = 7 -> <<"}", "chars", "{">>
      [] n = 8 -> <<"javascript", "{", "fence">>

\* the parts that contain three backquotes
Fences == {"json", "python", "javascript", "fence"}

\* value[from:to] of the text argument, named by the parts it spans
SliceV(from, to) == [t |-> "slice", v |-> 100 * from + to]

\* the list the caller made for the call: programs = []
CallerList == ListV(0)

IsInt(x) == x.t = "int"
IsFloat(x) == x.t = "float"

\* the number in tenths: Python compares an int and a float by value
Tenths(x) == IF IsInt(x) THEN 10 * x.v ELSE x.v

IsNum(x) == IsInt(x) \/ IsFloat(x)

\* x == y of Python where one side is a number: a list equals no number
NumEq(x, y) == IsNum(x) /\ IsNum(y) /\ Tenths(x) = Tenths(y)

\* item in my_list
InList(item, lst) == \E k \in DOMAIN lst : NumEq(item, lst[k])
IsStr(x) == x.t = "str"

Strategies == {"predicate", "principles", "p_prolog"}

\* the scripts that import predicate.py; each run is one process
\* three generic scripts, each using one decorator on a name p with any
\* clauses, and predicate_example.py with its verif clauses
GenericPrograms == {"uses_predicate", "uses_principles", "uses_p_prolog"}

\* the scripts of the repository, with the clauses of their source text
ScriptPrograms == {"predicate_example", "p_prolog_example", "fizzbuzz", "filters"}

\* a script that applies several of the decorators to the same name p
MixingPrograms == {"mixes_decorators"}

\* a script with a p_prolog predicate whose first clause calls the
\* predicate itself, as the second clause of find_path does, and whose
\* second clause cuts
NestingPrograms == {"nests_calls"}

Programs == GenericPrograms \cup MixingPrograms \cup NestingPrograms \cup ScriptPrograms

\* arity of a call: numbers_relation is also called with one and three
\* arguments (src/predicate_example.py:73-75)
Arity(a) == Len(a)

\* the decorator a generic script uses
DecoratorOf(prog) ==
    CASE prog = "uses_predicate"  -> "predicate"
      [] prog = "uses_principles" -> "principles"
      [] prog = "uses_p_prolog"   -> "p_prolog"
      [] OTHER                    -> "principles"

NamesOf(prog) ==
    CASE prog \in GenericPrograms \cup MixingPrograms -> {"p"}
      [] prog = "predicate_example" -> {"verif", "numbers_relation", "find_in_list"}
      [] prog = "p_prolog_example" ->
            {"find_path", "find_first_positive_even", "find_all_odd_numbers"}
      [] prog = "nests_calls" -> {"search"}
      [] prog = "fizzbuzz" -> {"fizzbuzz"}
      [] prog = "filters" -> {"check_structure"}

Names == {"p", "verif", "numbers_relation", "find_in_list",
          "find_first_positive_even",
          "find_all_odd_numbers", "fizzbuzz", "check_structure",
          "find_path", "search"}

\* argument tuples the callers pass
ArgsOf(n) ==
    CASE n = "p" -> { <<IntV(0)>>, <<IntV(1)>> }
      [] n = "verif" ->
            { <<IntV(10), IntV(12)>>, <<IntV(12), IntV(12)>>,
              <<IntV(10), IntV(14)>>, <<StrV(1), IntV(12)>> }
      \* src/predicate_example.py:63-75
      [] n = "numbers_relation" ->
            { <<IntV(5), IntV(10)>>, <<IntV(10), IntV(5)>>,
              <<StrV(3), StrV(3)>>, <<StrV(3), StrV(2)>>, <<IntV(5), StrV(5)>>,
              <<IntV(1), IntV(2), IntV(3)>>, <<StrV(1)>> }
      \* src/predicate_example.py:131-158
      [] n = "find_in_list" ->
            { <<IntV(4), ListV(4)>>, <<IntV(-3), ListV(4)>>,
              <<IntV(-4), ListV(4)>>, <<FloatV(65), ListV(4)>> }
      \* src/p_prolog.py:43-70
      [] n = "find_path" ->
            { <<ListV(5), IntV(5)>>, <<ListV(5), IntV(8)>>, <<ListV(6), IntV(3)>>,
              <<ListV(8), IntV(15)>>, <<ListV(9), IntV(1)>> }
      [] n = "search" -> { <<IntV(d)>> : d \in 0..MaxDepth }
      \* src/p_prolog.py:109, 120
      [] n = "find_first_positive_even" -> { <<ListV(1)>>, <<ListV(2)>> }
      \* src/p_prolog.py:139
      [] n = "find_all_odd_numbers" -> { <<ListV(3)>> }
      \* src/fizzbuzz.py:32-33
      [] n = "fizzbuzz" -> { <<IntV(i)>> : i \in 1..FizzMax }
      \* src/filters.py:100-105 and calls of other shapes: other texts, a
      \* value that is no string, one and three arguments, no list
      [] n = "check_structure" ->
            { <<TextV(i), CallerList>> : i \in 1..8 }
            \cup { <<IntV(42), CallerList>>, <<TextV(3)>>,
                   <<TextV(3), CallerList, IntV(3)>>, <<TextV(3), IntV(0)>> }

(* --------------------------- outcome signals --------------------------- *)
\* src/predicate.py:16  class PredicateFailed(Exception)
PredicateFailed == "PredicateFailed"
\* any other subclass of Exception
OtherException == "Exception"

\* src/predicate.py:188  _PREDICATE_CUT_SENTINEL = object()
PREDICATE_CUT_SENTINEL == [t |-> "sentinel", v |-> 0]

\* src/predicate.py:190-197  p_cut() returns the sentinel
p_cut == PREDICATE_CUT_SENTINEL

(* --------------------------- clause bodies ----------------------------- *)
\* A body is a straight-line script of the statements that matter to the
\* dispatcher: append to the caller's list, yield a value, raise.
ListAppend(x) == <<"append", x>>
Yield(x)  == <<"yield", x>>
\* for res in n(*a): yield res
YieldEach(n, a) == <<"call", n, a>>
\* src/predicate.py:20-22  p_fail() raises PredicateFailed
p_fail    == <<"raise", [t |-> "exc", v |-> PredicateFailed]>>
Fault     == <<"raise", [t |-> "exc", v |-> OtherException]>>

\* src/predicate.py:24-31  p_check(condition): raise PredicateFailed unless
\* the condition holds; otherwise fall through to the rest of the body
p_check(condition, rest) == IF condition THEN rest ELSE <<p_fail>>

\* the call has two arguments and both are of the type
BothInts(a) == Arity(a) = 2 /\ IsInt(a[1]) /\ IsInt(a[2])
BothStrs(a) == Arity(a) = 2 /\ IsStr(a[1]) /\ IsStr(a[2])

\* bodies the generic program registers under predicate / principles
BoolBodies == {"succeed", "check_fail", "effect_fail", "fault"}

\* generator bodies the generic program registers under p_prolog
GenBodies == {"gen_y", "gen_y_cut_y", "gen_y_fail", "gen_y_fault"}

\* generator bodies of the script that mixes the decorators
MixedGenBodies == {"gen_y_cut_y", "gen_cut_fail", "gen_cut_fault"}

GuardKinds == {"none", "positive", "raises"}

\* src/p_prolog.py:18-31  second clause of find_path from element k on: an
\* element equal to the item yields (item, index), an element that is a
\* list is searched by a call of find_path whose results are yielded
RECURSIVE FindPath2(_, _, _)
FindPath2(data, item, k) ==
    IF k > Len(data) THEN << >>
    ELSE (IF NumEq(data[k], item) THEN <<Yield(PairV(item.v, k - 1))>>
          ELSE IF data[k].t = "list"
               THEN <<YieldEach("find_path", <<data[k], item>>)>>
               ELSE << >>)
         \o FindPath2(data, item, k + 1)

\* src/p_prolog.py:81-91  first clause of find_first_positive_even from
\* element k on: a positive even element is yielded and followed by a cut,
\* any other element makes the clause fail
RECURSIVE FindFirstPositiveEven1(_, _)
FindFirstPositiveEven1(numbers, k) ==
    IF k > Len(numbers) THEN << >>
    ELSE IF numbers[k] > 0 /\ numbers[k] % 2 = 0
         THEN <<Yield(IntV(numbers[k])), Yield(p_cut)>>
              \o FindFirstPositiveEven1(numbers, k + 1)
         ELSE <<p_fail>>

\* src/p_prolog.py:94-99  second clause: every positive even element
RECURSIVE FindFirstPositiveEven2(_, _)
FindFirstPositiveEven2(numbers, k) ==
    IF k > Len(numbers) THEN << >>
    ELSE (IF numbers[k] > 0 /\ numbers[k] % 2 = 0
          THEN <<Yield(IntV(numbers[k]))>> ELSE << >>)
         \o FindFirstPositiveEven2(numbers, k + 1)

\* src/p_prolog.py:126-137  the clauses of find_all_odd_numbers: every odd
\* element, times the factor of the clause (1 and 10)
RECURSIVE FindAllOddNumbers(_, _, _)
FindAllOddNumbers(numbers, k, factor) ==
    IF k > Len(numbers) THEN << >>
    ELSE (IF numbers[k] % 2 # 0
          THEN <<Yield(IntV(numbers[k] * factor))>> ELSE << >>)
         \o FindAllOddNumbers(numbers, k + 1, factor)

\* src/predicate_example.py:96-103  first clause of find_in_list: the item
\* is yielded if it is in the list and an even integer
FindInList1(item, lst) ==
    p_check(InList(item, lst),
        p_check(IsInt(item) /\ item.v % 2 = 0, <<Yield(item)>>))

\* bug: the second clause does not test the sign of the item
FindInList2_NoSignTest(item, lst) ==
    p_check(InList(item, lst), <<Yield(item), Yield(p_cut)>>)

\* src/predicate_example.py:107-117  second clause of find_in_list: the
\* item is yielded, then the cut, if it is in the list and negative
FindInList2(item, lst) ==
    p_check(InList(item, lst),
        p_check((IsInt(item) \/ IsFloat(item)) /\ Tenths(item) < 0,
                <<Yield(item), Yield(p_cut)>>))

\* value.find(part, from): the first position at or after from where one
\* of the parts starts, 0 for the -1 of Python
FindFrom(text, parts, from) ==
    IF \E k \in from..Len(text) : text[k] \in parts
    THEN CHOOSE k \in from..Len(text) :
            text[k] \in parts /\ \A j \in from..(k - 1) : text[j] \notin parts
    ELSE 0

\* value.rfind(part)
FindLast(text, parts) ==
    IF \E k \in DOMAIN text : text[k] \in parts
    THEN CHOOSE k \in DOMAIN text :
            text[k] \in parts /\ \A j \in (k + 1)..Len(text) : text[j] \notin parts
    ELSE 0

\* src/filters.py:19-27  the while loop from an opening at pos: the block
\* up to the next three backquotes is kept and the search for the next
\* opening starts at these backquotes; no backquotes ends the loop
RECURSIVE FencedBlocks(_, _, _)
FencedBlocks(text, tag, pos) ==
    LET end == FindFrom(text, Fences, pos + 1) IN
    IF end = 0 THEN << >>
    ELSE <<SliceV(pos + 1, end - 1)>> \o
         (LET next == FindFrom(text, {tag}, end) IN
          IF next = 0 THEN << >> ELSE FencedBlocks(text, tag, next))

\* the call binds (value, programs) and programs can be appended to
TakesCall(a) == Arity(a) = 2 /\ a[2].t = "list"

\* src/filters.py:14-30, 33-47, 50-65  the clauses for a fenced block
CheckStructureFenced(a, tag) ==
    IF Arity(a) # 2 \/ a[1].t # "text" THEN <<Fault>>
    ELSE LET text == TextContents(a[1].v)
             pos == FindFrom(text, {tag}, 1) IN
         p_check(pos # 0,
            LET lst == FencedBlocks(text, tag, pos) IN
            p_check(lst # << >>,
               IF a[2].t = "list"
               THEN [k \in DOMAIN lst |-> ListAppend(lst[k])]
               ELSE <<Fault>>))

\* src/filters.py:68-72  from the first "{" to the last "}"
CheckStructureBraces(a) ==
    IF Arity(a) # 2 \/ a[1].t # "text" THEN <<Fault>>
    ELSE LET text == TextContents(a[1].v)
             pos == FindFrom(text, {"{"}, 1)
             end == FindLast(text, {"}"}) IN
         p_check(pos # 0 /\ end # 0,
            IF a[2].t = "list" THEN <<ListAppend(SliceV(pos, end))>> ELSE <<Fault>>)

\* "No structure was found in this text.", a string of 36 characters
NoStructureFound == StrV(36)

\* src/filters.py:75-77  the fallback: a call that does not bind
\* (value, programs) raises TypeError, programs without append raises
\* AttributeError
CheckStructureFallback(a) ==
    IF TakesCall(a)
    THEN <<ListAppend(NoStructureFound), ListAppend(a[1])>>
    ELSE <<Fault>>

\* print(text): the text goes to the effects the caller observes
StdoutWrite(x) == ListAppend(x)

\* the script a body runs on the given arguments
BodyScript(body, a) ==
    CASE body = "succeed"      -> <<ListAppend(IntV(1))>>
      [] body = "check_fail"   -> p_check(FALSE, <<ListAppend(IntV(2))>>)
      [] body = "effect_fail"  -> <<ListAppend(IntV(3)), p_fail>>
      [] body = "fault"        -> <<ListAppend(IntV(4)), Fault>>
      [] body = "gen_y"        -> <<Yield(IntV(1))>>
      [] body = "gen_y_cut_y"  -> <<Yield(IntV(2)), Yield(p_cut), Yield(IntV(3))>>
      [] body = "gen_cut_fail" -> <<Yield(p_cut), p_fail>>
      [] body = "gen_y_fail"   -> <<Yield(IntV(4)), ListAppend(IntV(6)), p_fail>>
      [] body = "gen_y_fault"  -> <<Yield(IntV(5)), Fault>>
      [] body = "gen_cut_fault" -> <<Yield(IntV(7)), Yield(p_cut), Fault>>
      \* src/predicate_example.py:13-16
      [] body = "numbers_relation_1" ->
            IF ~BothInts(a) THEN <<Fault>>   \* TypeError
            ELSE p_check(a[1].v < a[2].v, << >>)
      \* src/predicate_example.py:20-23  len(s1) == len(s2)
      [] body = "numbers_relation_2" ->
            IF ~BothStrs(a) THEN <<Fault>>   \* TypeError
            ELSE p_check(a[1].v = a[2].v, << >>)
      \* src/predicate_example.py:26-29
      [] body = "numbers_relation_3" ->
            IF ~BothInts(a) THEN <<Fault>>   \* TypeError
            ELSE p_check(a[1].v >= a[2].v, << >>)
      \* src/predicate_example.py:33-36  def numbers_relation(*args)
      [] body = "numbers_relation_4" -> p_check(Arity(a) = 2, << >>)
      \* src/predicate_example.py:40-44
      [] body = "verif_1" ->
            IF ~(IsInt(a[1]) /\ IsInt(a[2])) THEN <<Fault>>   \* TypeError
            ELSE p_check(a[1].v < a[2].v, <<ListAppend(IntV(1))>>)
      \* src/predicate_example.py:47-51
      [] body = "verif_2" ->
            IF ~(IsInt(a[1]) /\ IsInt(a[2])) THEN <<Fault>>   \* TypeError
            ELSE p_check(a[2].v - a[1].v = 2, <<ListAppend(IntV(2))>>)
      \* src/predicate_example.py:54-58
      [] body = "verif_3" ->
            IF ~(IsInt(a[1]) /\ IsInt(a[2])) THEN <<Fault>>   \* TypeError
            ELSE p_check(a[1].v + a[2].v < 100, <<ListAppend(IntV(3))>>)
      [] body = "check_structure_1" -> CheckStructureFenced(a, "json")
      [] body = "check_structure_2" -> CheckStructureFenced(a, "python")
      [] body = "check_structure_3" -> CheckStructureFenced(a, "javascript")
      [] body = "check_structure_4" -> CheckStructureBraces(a)
      [] body = "check_structure_5" -> CheckStructureFallback(a)
      \* src/p_prolog.py:11-37  the string of the third clause has 24
      \* characters for an item of two digits
      [] body = "find_path_1" -> p_check(NumEq(a[2], IntV(5)), <<Yield(a[2])>>)
      [] body = "find_path_2" ->
            IF a[1].t = "list" THEN FindPath2(ListElements(a[1].v), a[2], 1) ELSE << >>
      [] body = "find_path_3" -> p_check(a[2].v > 10, <<Yield(StrV(24))>>)
      \* a clause that calls its own predicate one level down, a clause
      \* that cuts between two values, a clause that yields one value
      [] body = "search_1" ->
            IF a[1].v > 0 THEN <<YieldEach("search", <<IntV(a[1].v - 1)>>)>> ELSE << >>
      [] body = "search_2" ->
            <<Yield(IntV(10 + a[1].v)), Yield(p_cut), Yield(IntV(20 + a[1].v))>>
      [] body = "search_3" -> <<Yield(IntV(30 + a[1].v))>>
      [] body = "find_in_list_1" -> FindInList1(a[1], ListElements(a[2].v))
      [] body = "find_in_list_2" -> FindInList2(a[1], ListElements(a[2].v))
      [] body = "find_first_positive_even_1" ->
            FindFirstPositiveEven1(ListContents(a[1].v), 1)
      [] body = "find_first_positive_even_2" ->
            FindFirstPositiveEven2(ListContents(a[1].v), 1)
      [] body = "find_all_odd_numbers_1" ->
            FindAllOddNumbers(ListContents(a[1].v), 1, 1)
      [] body = "find_all_odd_numbers_2" ->
            FindAllOddNumbers(ListContents(a[1].v), 1, 10)
      \* src/fizzbuzz.py:11-30  the printed words, as strings of their length
      [] body = "fizzbuzz_1" -> p_check(a[1].v % 15 = 0, <<StdoutWrite(StrV(8))>>)
      [] body = "fizzbuzz_2" -> p_check(a[1].v % 3 = 0, <<StdoutWrite(StrV(4))>>)
      [] body = "fizzbuzz_3" -> p_check(a[1].v % 5 = 0, <<StdoutWrite(StrV(4))>>)
      [] body = "fizzbuzz_4" -> <<StdoutWrite(a[1])>>

\* what calling the guard on the arguments does: "none" when the clause has
\* no guard, else "true", "false" or "raise"
GuardEval(guard, a) ==
    CASE guard = "none"     -> "none"
      [] guard = "positive" -> IF a[1].v > 0 THEN "true" ELSE "false"
      [] guard = "raises"   -> "raise"
      \* src/predicate_example.py:12, 25  lambda a, b: a call with another
      \* number of arguments raises TypeError
      [] guard = "int_int" ->
            IF Arity(a) # 2 THEN "raise"
            ELSE IF IsInt(a[1]) /\ IsInt(a[2]) THEN "true" ELSE "false"
      \* src/predicate_example.py:19
      [] guard = "str_str" ->
            IF Arity(a) # 2 THEN "raise"
            ELSE IF IsStr(a[1]) /\ IsStr(a[2]) THEN "true" ELSE "false"
      \* src/filters.py:13  isinstance(value, str) and isinstance(programs, list)
      [] guard = "str_list" ->
            IF Arity(a) # 2 THEN "raise"
            ELSE IF a[1].t = "text" /\ a[2].t = "list" THEN "true" ELSE "false"
      \* src/p_prolog.py:11  lambda data, item: item in data
      [] guard = "item_in_data" ->
            IF Arity(a) # 2 \/ a[1].t # "list" THEN "raise"
            ELSE IF InList(a[2], ListElements(a[1].v)) THEN "true" ELSE "false"
      [] guard = "depth_zero" -> IF a[1].v = 0 THEN "true" ELSE "false"
      \* src/predicate_example.py:95, 106  isinstance(my_list, list)
      [] guard = "second_is_list" ->
            IF Arity(a) # 2 THEN "raise"
            ELSE IF a[2].t = "list" THEN "true" ELSE "false"
      \* src/predicate_example.py:39  the list argument is always a list
      [] guard = "int_int_list" ->
            IF IsInt(a[1]) /\ IsInt(a[2]) THEN "true" ELSE "false"

Clause(g, b) == [guard |-> g, body |-> b]

\* src/predicate_example.py:39-58  the three verif clauses in source order
VerifSource == << Clause("int_int_list", "verif_1"),
                  Clause("int_int_list", "verif_2"),
                  Clause("none", "verif_3") >>

\* src/predicate_example.py:12-36  the four numbers_relation clauses
NumbersRelationSource == << Clause("int_int", "numbers_relation_1"),
                            Clause("str_str", "numbers_relation_2"),
                            Clause("int_int", "numbers_relation_3"),
                            Clause("none", "numbers_relation_4") >>

\* src/p_prolog.py:80-99  the two find_first_positive_even clauses
FindFirstPositiveEvenSource ==
    << Clause("none", "find_first_positive_even_1"),
       Clause("none", "find_first_positive_even_2") >>

\* src/p_prolog.py:126-137  the two find_all_odd_numbers clauses
FindAllOddNumbersSource ==
    << Clause("none", "find_all_odd_numbers_1"),
       Clause("none", "find_all_odd_numbers_2") >>

\* bug: the divisible-by-3 clause is declared before the divisible-by-15 one
FizzbuzzSource_ThreeFirst == << Clause("none", "fizzbuzz_2"),
                                Clause("none", "fizzbuzz_1"),
                                Clause("none", "fizzbuzz_3"),
                                Clause("none", "fizzbuzz_4") >>

\* src/fizzbuzz.py:11-30  the four fizzbuzz clauses, none with a guard
FizzbuzzSource == << Clause("none", "fizzbuzz_1"),
                     Clause("none", "fizzbuzz_2"),
                     Clause("none", "fizzbuzz_3"),
                     Clause("none", "fizzbuzz_4") >>

\* bug: the fallback has the guard of the other clauses
CheckStructureSource_GuardedFallback ==
    << Clause("str_list", "check_structure_1"),
       Clause("str_list", "check_structure_2"),
       Clause("str_list", "check_structure_3"),
       Clause("str_list", "check_structure_4"),
       Clause("str_list", "check_structure_5") >>

\* src/filters.py:13-77  the five check_structure clauses
CheckStructureSource ==
    << Clause("str_list", "check_structure_1"),
       Clause("str_list", "check_structure_2"),
       Clause("str_list", "check_structure_3"),
       Clause("str_list", "check_structure_4"),
       Clause("none", "check_structure_5") >>

\* src/p_prolog.py:11-37  the three find_path clauses
FindPathSource == << Clause("item_in_data", "find_path_1"),
                     Clause("none", "find_path_2"),
                     Clause("none", "find_path_3") >>

\* the three clauses of the script that nests calls
SearchSource == << Clause("none", "search_1"),
                   Clause("depth_zero", "search_2"),
                   Clause("none", "search_3") >>

\* src/predicate_example.py:95-117  the two find_in_list clauses
FindInListSource == << Clause("second_is_list", "find_in_list_1"),
                       Clause("second_is_list", "find_in_list_2") >>

\* the clauses a script declares under decorator s for name n, in the
\* order of its source text
SourceOf(s, n) ==
    CASE s = "principles" /\ n = "verif"           -> VerifSource
      [] s = "p_prolog" /\ n = "find_in_list"       -> FindInListSource
      [] s = "predicate" /\ n = "check_structure"   -> CheckStructureSource
      [] s = "p_prolog" /\ n = "find_path"          -> FindPathSource
      [] s = "p_prolog" /\ n = "search"             -> SearchSource
      [] s = "predicate" /\ n = "numbers_relation" -> NumbersRelationSource
      [] s = "p_prolog" /\ n = "find_first_positive_even" ->
            FindFirstPositiveEvenSource
      [] s = "p_prolog" /\ n = "find_all_odd_numbers" ->
            FindAllOddNumbersSource
      [] s = "predicate" /\ n = "fizzbuzz"         -> FizzbuzzSource
      [] OTHER                                     -> << >>

\* the names a script defines, in the order of its source text
ProgramOrder(prog) ==
    CASE prog = "predicate_example" -> <<"numbers_relation", "verif", "find_in_list">>
      [] prog = "p_prolog_example" ->
            <<"find_path", "find_first_positive_even", "find_all_odd_numbers">>
      [] prog = "nests_calls" -> <<"search">>
      [] prog = "fizzbuzz" -> <<"fizzbuzz">>
      [] prog = "filters" -> <<"check_structure">>
      [] OTHER -> <<"p">>

\* the number of clauses the script declares for name n
SourceLen(n) ==
    Len(SourceOf("predicate", n)) + Len(SourceOf("principles", n))
        + Len(SourceOf("p_prolog", n))

\* the number of decorator applications that come before the first clause
\* of name n in a script that defines the names of order
RECURSIVE DeclaredBefore(_, _)
DeclaredBefore(order, n) ==
    IF order = << >> \/ Head(order) = n THEN 0
    ELSE SourceLen(Head(order)) + DeclaredBefore(Tail(order), n)

(* ------------------------------- state --------------------------------- *)
VARIABLES
    program,          \* which script this process runs
    registry,         \* _predicate_registry, _principles_registry, _p_prolog_registry
    wrappers,         \* _predicate_wrappers, ... : name -> its wrapper object
    handles,          \* the wrapper objects made so far: <<strategy, pred_name>>
    globals,          \* the script's namespace: name -> the object def bound it to
    declared,         \* history: the decorator applications, in program order
    prev,             \* history: the call the caller made right before this one
    invoked,          \* history: handle -> decorator applications before its first call
    inner,            \* the call a generator body made and whose list it goes through
    pc,               \* position of the running invocation, "idle" if none
    strat,            \* strategy of the wrapper being run
    name,             \* pred_name captured by the wrapper's closure
    args,             \* *args of the invocation
    idx,              \* position of the for loop in definitions (1-based)
    guard_ok,         \* local guard_ok
    acc,              \* the caller's list that bodies append to
    solutions,        \* local solutions of p_prolog_wrapper
    cut_encountered,  \* local cut_encountered of p_prolog_wrapper
    gpos,             \* where result_generator is suspended, 0 if none
    result,           \* what the invocation returned
    log               \* effect log: <<"guard" | "body" | "item", index, outcome>>

vars == <<program, registry, wrappers, handles, globals, declared, prev, invoked, inner, pc, strat, name, args, idx, guard_ok,
          acc, solutions, cut_encountered, gpos, result, log>>

invocation == <<strat, name, args, idx, guard_ok, acc, solutions,
                cut_encountered, gpos, result, log, inner>>

NoResult      == [kind |-> "none", b |-> FALSE, l |-> << >>]
BoolResult(x) == [kind |-> "bool", b |-> x, l |-> << >>]
ListResult(x) == [kind |-> "list", b |-> FALSE, l |-> x]

\* the caller made no call right before this one
NoCall == [s |-> "none", n |-> "none", a |-> << >>, result |-> NoResult,
           cut |-> FALSE, log |-> << >>]

\* the running body has made no call: at is the statement of the call
\* whose list the body goes through (0: none), rest what is left of that
\* list, result and cut the list and the cut flag of the last call made
NoInner == [at |-> 0, rest |-> << >>, result |-> << >>, cut |-> FALSE]

\* bug: the wrapper keeps the clauses the list held when the decorator
\* returned the handle for the first time
definitions_AtCreation == SubSeq(registry[strat][name], 1, 1)

\* definitions = registry.get(pred_name, []): the list object itself, read
\* by the wrapper when it is called
definitions == registry[strat][name]

Init ==
    /\ program \in Programs
    /\ registry = [s \in Strategies |-> << >>]
    /\ wrappers = [s \in Strategies |-> << >>]
    /\ handles = << >>
    /\ globals = << >>
    /\ prev = NoCall
    /\ invoked = << >>
    /\ inner = NoInner
    /\ declared = << >>
    /\ pc = "idle"
    /\ strat = "none"
    /\ name = "none"
    /\ args = << >>
    /\ idx = 0
    /\ guard_ok = FALSE
    /\ acc = << >>
    /\ solutions = << >>
    /\ cut_encountered = FALSE
    /\ gpos = 0
    /\ result = NoResult
    /\ log = << >>

(* ---------------------------- registration ----------------------------- *)
\* clauses the running script may register next under name n of strategy s
NextClauses(s, n) ==
    LET have == IF n \in DOMAIN registry[s] THEN Len(registry[s][n]) ELSE 0
    IN  CASE program \in GenericPrograms ->
               IF s # DecoratorOf(program) \/ have >= MaxClauses THEN {}
               ELSE { Clause(g, b) : g \in GuardKinds,
                      b \in IF s = "p_prolog" THEN GenBodies ELSE BoolBodies }
          [] program \in MixingPrograms ->
               IF Len(declared) >= MaxMixedClauses THEN {}
               ELSE { Clause("none", b) :
                      b \in IF s = "p_prolog" THEN MixedGenBodies ELSE {"succeed"} }
          [] OTHER ->
               IF /\ have < Len(SourceOf(s, n))
                  /\ Len(declared) = DeclaredBefore(ProgramOrder(program), n) + have
               THEN { SourceOf(s, n)[have + 1] }
               ELSE {}

\* bug: a clause equal to one already in the list is not added again
Registered_Dedupes(reg, n, c) ==
    [x \in (DOMAIN reg) \cup {n} |->
        IF x = n
        THEN (IF n \in DOMAIN reg
              THEN (IF \E k \in DOMAIN reg[n] : reg[n][k] = c
                    THEN reg[n] ELSE Append(reg[n], c))
              ELSE <<c>>)
        ELSE reg[x]]

\* bug: the new clause is put in front of the list
Registered_Prepends(reg, n, c) ==
    [x \in (DOMAIN reg) \cup {n} |->
        IF x = n
        THEN <<c>> \o (IF n \in DOMAIN reg THEN reg[n] ELSE << >>)
        ELSE reg[x]]

\* registry after the decorator ran: the list is created on the first
\* registration of the name, the clause is appended at the end
Registered(reg, n, c) ==
    [x \in (DOMAIN reg) \cup {n} |->
        IF x = n
        THEN Append(IF n \in DOMAIN reg THEN reg[n] ELSE << >>, c)
        ELSE reg[x]]

\* dictionary d after d[k] = v
Bind(d, k, v) == [x \in (DOMAIN d) \cup {k} |-> IF x = k THEN v ELSE d[x]]

\* bug: a wrapper is made at every application of the decorator
NeedsWrapper_Always(reg, n) == TRUE

\* `if pred_name not in _predicate_registry`: the first registration of
\* the name makes its wrapper
NeedsWrapper(reg, n) == n \notin DOMAIN reg

\* @predicate(guard) / @principles(guard) / @p_prolog(guard) def n(...):
\* the decorator returns the wrapper of the name and def binds n to it
Register(s, n, c) ==
    /\ pc = "idle"
    /\ n \in NamesOf(program)
    /\ c \in NextClauses(s, n)
    /\ registry' = [registry EXCEPT ![s] = Registered(registry[s], n, c)]
    /\ IF NeedsWrapper(registry[s], n)
       THEN /\ handles' = Append(handles, <<s, n>>)
            /\ wrappers' = [wrappers EXCEPT ![s] = Bind(@, n, Len(handles) + 1)]
       ELSE UNCHANGED <<handles, wrappers>>
    /\ globals' = Bind(globals, n, wrappers'[s][n])
    /\ declared' = Append(declared, <<s, n, c>>)
    /\ prev' = prev
    /\ UNCHANGED <<program, pc, invocation, invoked>>

(* ----------------------------- invocation ------------------------------ *)
\* the script calls its tests only after all of its clauses are registered
Callable(s, n) ==
    /\ n \in DOMAIN wrappers[s]
    /\ program \in ScriptPrograms \cup NestingPrograms =>
          Len(registry[s][n]) = Len(SourceOf(s, n))

\* bug: solutions is one list shared by the invocations
NewSolutions_Shared(old) == old

\* `solutions = []` at the top of p_prolog_wrapper: a new list, whatever
\* an earlier invocation left
NewSolutions(old) == << >>

\* bug: the cut flag is shared by the invocations
NewCutFlag_Shared(old) == old

\* `cut_encountered = False` at the top of p_prolog_wrapper
NewCutFlag(old) == FALSE

\* entry of the wrapper kept for name n by decorator s, with arguments a
\* and an empty list
Call(s, n, a) ==
    /\ Callable(s, n)
    /\ a \in ArgsOf(n)
    /\ pc' = "loop"
    /\ strat' = handles[wrappers[s][n]][1]
    /\ name' = handles[wrappers[s][n]][2]
    /\ args' = a
    /\ idx' = 1
    /\ guard_ok' = FALSE
    /\ acc' = << >>
    /\ solutions' = NewSolutions(solutions)
    /\ cut_encountered' = NewCutFlag(cut_encountered)
    /\ gpos' = 0
    /\ result' = NoResult
    /\ log' = << >>
    /\ inner' = NoInner
    /\ UNCHANGED <<program, registry, wrappers, handles, globals, declared>>

\* the caller calls a predicate
Invoke(s, n, a) ==
    /\ pc = "idle"
    /\ Call(s, n, a)
    /\ prev' = prev
    /\ invoked' = invoked

\* the caller has the value of a call and calls a predicate again at once
Again(s, n, a) ==
    /\ pc = "done"
    /\ Call(s, n, a)
    /\ prev' = [s |-> strat, n |-> name, a |-> args, result |-> result,
                cut |-> cut_encountered, log |-> log]
    /\ invoked' = invoked

\* the caller calls a predicate of a script that goes on declaring clauses
\* after its calls: the first call of a handle is noted with the number of
\* decorator applications made until then
InvokeNoted(s, n, a) ==
    /\ pc = "idle"
    /\ Call(s, n, a)
    /\ prev' = prev
    /\ invoked' = IF wrappers[s][n] \in DOMAIN invoked THEN invoked
                  ELSE Bind(invoked, wrappers[s][n], Len(declared))

\* a decorator application of a script whose caller calls back to back
RegisterRepeat(s, n, c) ==
    /\ program \in GenericPrograms \cup MixingPrograms =>
          Len(declared) < MaxRepeatClauses
    /\ Register(s, n, c)

\* run a non-generator body from statement k: the caller's list afterwards
\* and "ok" or the exception class that left the body
RECURSIVE RunBody(_, _, _)
RunBody(script, k, lst) ==
    IF k > Len(script) THEN [acc |-> lst, out |-> "ok"]
    ELSE IF script[k][1] = "append" THEN RunBody(script, k + 1, Append(lst, script[k][2]))
    ELSE IF script[k][1] = "raise" THEN [acc |-> lst, out |-> script[k][2].v]
    ELSE RunBody(script, k + 1, lst)

\* next(result_generator): resume the body at statement k and run to the
\* next yield ("item"), the end ("stop") or an exception ("raise")
RECURSIVE NextItem(_, _, _)
NextItem(script, k, lst) ==
    IF k > Len(script) THEN [kind |-> "stop", val |-> IntV(0), pos |-> k, acc |-> lst]
    ELSE IF script[k][1] = "append" THEN NextItem(script, k + 1, Append(lst, script[k][2]))
    ELSE IF script[k][1] = "raise"
         THEN [kind |-> "raise", val |-> script[k][2], pos |-> Len(script) + 1, acc |-> lst]
    ELSE IF script[k][1] = "call"
         THEN [kind |-> "call", val |-> IntV(0), pos |-> k, acc |-> lst]
    ELSE [kind |-> "item", val |-> script[k][2], pos |-> k + 1, acc |-> lst]

\* bug: the body is tried whatever the guard said
GuardOk_Always(g) == TRUE

\* bug: a guard that raised counts as a guard that passed
GuardOk_RaisePasses(g) == g \in {"none", "true", "raise"}

\* the value of guard_ok after `(current_guard is None) or current_guard(...)`
\* in a try whose handler sets guard_ok = False
GuardOk(g) == g \in {"none", "true"}

\* bug: only `except PredicateFailed`, no `except Exception`
Caught_OnlyPredicateFailed(exc) == exc = PredicateFailed

\* the except clauses of the wrappers: PredicateFailed and Exception are
\* caught, anything else leaves the wrapper
Caught(exc) == exc = PredicateFailed \/ exc = OtherException

Event(kind, k, out) == <<kind, k, out>>

\* bug: the wrapper restores the caller's list when the body failed
EffectsKept_UndoneOnFailure(before, after, out) ==
    IF out = "ok" THEN after ELSE before

\* the caller's list after the try around a body: no except clause touches
\* it, it stays as the body left it
EffectsKept(before, after, out) == after

\* leave the wrapper with a return statement
Return(r) ==
    /\ pc' = "done"
    /\ result' = r

\* an exception nobody caught leaves the wrapper
Propagate ==
    /\ pc' = "raised"
    /\ result' = NoResult

\* bug: a clause that was skipped or failed is tried once more before the
\* loop moves on
Continue_RetriesOnce ==
    /\ pc' = "loop"
    /\ idx' = IF Cardinality({x \in DOMAIN log : log[x][1] = "guard" /\ log[x][2] = idx})
                 + (IF pc = "loop" THEN 1 ELSE 0) < 2
              THEN idx ELSE idx + 1
    /\ result' = result

\* go to the next iteration of the for loop over definitions
Continue ==
    /\ pc' = "loop"
    /\ idx' = idx + 1
    /\ result' = result

(* ------------------- predicate_wrapper (OrElse) ------------------------ *)
\* bug: no `return True` after a body that completed
PredicateOnBody_NoReturn(out) ==
    IF out = "ok" THEN "continue"
    ELSE IF Caught(out) THEN "continue"
    ELSE "propagate"

\* what the try around the body does with the body's outcome
PredicateOnBody(out) ==
    IF out = "ok" THEN "return_true"
    ELSE IF Caught(out) THEN "continue"
    ELSE "propagate"

\* for header, guard evaluation and `if guard_ok`
PredicateLoop ==
    /\ pc = "loop" /\ strat = "predicate"
    /\ IF idx > Len(definitions)
       THEN /\ Return(BoolResult(FALSE))
            /\ UNCHANGED <<idx, guard_ok, log>>
       ELSE LET g == GuardEval(definitions[idx].guard, args) IN
            /\ guard_ok' = GuardOk(g)
            /\ log' = Append(log, Event("guard", idx, g))
            /\ IF GuardOk(g)
               THEN pc' = "body" /\ UNCHANGED <<idx, result>>
               ELSE Continue
    /\ UNCHANGED <<program, registry, wrappers, handles, globals, declared, prev, invoked, inner, strat, name, args, acc,
                   solutions, cut_encountered, gpos>>

\* pred_func(*args, **kwargs) inside its try
PredicateBody ==
    /\ pc = "body" /\ strat = "predicate"
    /\ LET r == RunBody(BodyScript(definitions[idx].body, args), 1, acc)
           next == PredicateOnBody(r.out) IN
       /\ acc' = EffectsKept(acc, r.acc, r.out)
       /\ log' = Append(log, Event("body", idx, r.out))
       /\ CASE next = "return_true" -> Return(BoolResult(TRUE)) /\ UNCHANGED idx
            [] next = "continue"    -> Continue
            [] OTHER                -> Propagate /\ UNCHANGED idx
    /\ UNCHANGED <<program, registry, wrappers, handles, globals, declared, prev, invoked, inner, strat, name, args, guard_ok,
                   solutions, cut_encountered, gpos>>

(* ------------------ principles_wrapper (StrictAll) --------------------- *)
\* bug: a false guard skips the test instead of failing the predicate
PrinciplesOnGuard_FalseRunsBody(g) ==
    IF g = "raise" THEN "return_false"
    ELSE "body"

\* bug: a guard that raised is skipped and the body runs
PrinciplesOnGuard_RaiseRunsBody(g) ==
    IF g = "raise" THEN "body"
    ELSE IF ~GuardOk(g) THEN "return_false"
    ELSE "body"

\* what the wrapper does once the guard expression has been evaluated
PrinciplesOnGuard(g) ==
    IF g = "raise" THEN "return_false"
    ELSE IF ~GuardOk(g) THEN "return_false"
    ELSE "body"

\* bug: a failed body moves on to the next clause, as under OrElse
PrinciplesOnBody_FailureContinues(out) ==
    IF out = "ok" THEN "continue"
    ELSE IF Caught(out) THEN "continue"
    ELSE "propagate"

\* what the try around the body does with the body's outcome
PrinciplesOnBody(out) ==
    IF out = "ok" THEN "continue"
    ELSE IF Caught(out) THEN "return_false"
    ELSE "propagate"

\* for header, guard evaluation and `if not guard_ok`
PrinciplesLoop ==
    /\ pc = "loop" /\ strat = "principles"
    /\ IF idx > Len(definitions)
       THEN /\ Return(BoolResult(TRUE))
            /\ UNCHANGED <<idx, guard_ok, log>>
       ELSE LET g == GuardEval(definitions[idx].guard, args) IN
            /\ guard_ok' = IF g = "raise" THEN guard_ok ELSE GuardOk(g)
            /\ log' = Append(log, Event("guard", idx, g))
            /\ UNCHANGED idx
            /\ IF PrinciplesOnGuard(g) = "body"
               THEN pc' = "body" /\ UNCHANGED result
               ELSE Return(BoolResult(FALSE))
    /\ UNCHANGED <<program, registry, wrappers, handles, globals, declared, prev, invoked, inner, strat, name, args, acc,
                   solutions, cut_encountered, gpos>>

\* pred_func(*args, **kwargs) inside its try
PrinciplesBody ==
    /\ pc = "body" /\ strat = "principles"
    /\ LET r == RunBody(BodyScript(definitions[idx].body, args), 1, acc)
           next == PrinciplesOnBody(r.out) IN
       /\ acc' = EffectsKept(acc, r.acc, r.out)
       /\ log' = Append(log, Event("body", idx, r.out))
       /\ CASE next = "continue"     -> Continue
            [] next = "return_false" -> Return(BoolResult(FALSE)) /\ UNCHANGED idx
            [] OTHER                 -> Propagate /\ UNCHANGED idx
    /\ UNCHANGED <<program, registry, wrappers, handles, globals, declared, prev, invoked, inner, strat, name, args, guard_ok,
                   solutions, cut_encountered, gpos>>

(* ------------------- p_prolog_wrapper (Backtracking) ------------------- *)
\* bug: the clause loop never looks at the cut flag
BreakOnCut_Never(cut) == FALSE

\* `if cut_encountered: break` at the top of the clause loop
BreakOnCut(cut) == cut

\* `if result is _PREDICATE_CUT_SENTINEL: cut_encountered = True`
CutFlag(cut, item) == cut \/ item = PREDICATE_CUT_SENTINEL

\* bug: solutions.insert(0, result) instead of append
Collect_Prepends(sols, item) ==
    IF item = PREDICATE_CUT_SENTINEL THEN sols ELSE <<item>> \o sols

\* bug: every produced item is collected, the sentinel too
Collect_KeepsSentinel(sols, item) == Append(sols, item)

\* `else: solutions.append(result)`: the sentinel is not collected
Collect(sols, item) ==
    IF item = PREDICATE_CUT_SENTINEL THEN sols ELSE Append(sols, item)

\* bug: the except clauses forget the cut of the clause that failed
CutAfterRaise_Cleared(cut, exc) == FALSE

\* cut_encountered after the except clauses of the drain: both are `pass`
CutAfterRaise(cut, exc) == cut

\* bug: an unexpected exception of the generator is not handled
PrologOnRaise_OnlyPredicateFailed(exc) ==
    IF exc = PredicateFailed THEN "continue" ELSE "propagate"

\* what the try around the drain does with an exception of the generator
PrologOnRaise(exc) == IF Caught(exc) THEN "continue" ELSE "propagate"

\* bug: the cut flag is one variable for all the invocations, so that a
\* call made by a body leaves its flag to the invocation that called
CutAfterCall_Shared(outer, called) == called

\* cut_encountered of an invocation after a call made by one of its
\* bodies returned: the call had its own local
CutAfterCall(outer, called) == outer

\* bug: the solutions are one list for all the invocations
SolutionsAfterCall_Shared(outer, called) == called

\* solutions of an invocation after a call made by one of its bodies
\* returned: the call had its own list
SolutionsAfterCall(outer, called) == outer

\* p_prolog_wrapper run from its entry to its return by a call made in a
\* generator body; st is [sols, cut], the solutions and cut_encountered
\* the element of a set of one element: Only({F(v) : v \in {e}}) is F(e)
\* with e evaluated once
Only(S) == CHOOSE x \in S : TRUE

RECURSIVE YieldAll(_, _)
RECURSIVE DrainAll(_, _, _)
RECURSIVE PrologRun(_, _, _, _)
RECURSIVE NestedCall(_, _, _)

\* the drain takes the items one after the other
YieldAll(items, st) ==
    IF items = << >> THEN st
    ELSE Only({ YieldAll(Tail(items), v) :
                v \in {[sols |-> Collect(st.sols, Head(items)),
                        cut  |-> CutFlag(st.cut, Head(items))]} })

\* `for result in result_generator` with its try/except, from statement k
DrainAll(script, k, st) ==
    LET it == NextItem(script, k, << >>) IN
    CASE it.kind = "item"  ->
            Only({ DrainAll(script, it.pos, v) : v \in {YieldAll(<<it.val>>, st)} })
      [] it.kind = "stop"  -> st
      [] it.kind = "raise" -> [sols |-> st.sols, cut |-> CutAfterRaise(st.cut, it.val.v)]
      [] it.kind = "call"  ->
            Only({ DrainAll(script, it.pos + 1, v) :
                   v \in { YieldAll(r.sols, [sols |-> SolutionsAfterCall(st.sols, r.sols),
                                             cut  |-> CutAfterCall(st.cut, r.cut)]) :
                           r \in {NestedCall(script[it.pos][2], script[it.pos][3], st)} } })

\* the clause loop from clause k
PrologRun(defs, a, k, st) ==
    IF k > Len(defs) \/ BreakOnCut(st.cut) THEN st
    ELSE IF GuardOk(GuardEval(defs[k].guard, a))
         THEN Only({ PrologRun(defs, a, k + 1, v) :
                     v \in { DrainAll(script, 1, st) :
                             script \in {BodyScript(defs[k].body, a)} } })
         ELSE PrologRun(defs, a, k + 1, st)

\* n(*a) called while the calling invocation has solutions and cut st
NestedCall(n, a, st) ==
    Only({ PrologRun(defs, v, 1, [sols |-> NewSolutions(st.sols),
                                  cut  |-> NewCutFlag(st.cut)]) :
           defs \in {registry["p_prolog"][n]}, v \in {a} })

\* for header, cut test, guard evaluation and `if guard_ok`
PrologLoop ==
    /\ pc = "loop" /\ strat = "p_prolog"
    /\ IF idx > Len(definitions) \/ BreakOnCut(cut_encountered)
       THEN /\ Return(ListResult(solutions))
            /\ UNCHANGED <<idx, guard_ok, log>>
       ELSE LET g == GuardEval(definitions[idx].guard, args) IN
            /\ guard_ok' = GuardOk(g)
            /\ log' = Append(log, Event("guard", idx, g))
            /\ IF GuardOk(g)
               THEN pc' = "body" /\ UNCHANGED <<idx, result>>
               ELSE Continue
    /\ UNCHANGED <<program, registry, wrappers, handles, globals, declared, prev, invoked, inner, strat, name, args, acc,
                   solutions, cut_encountered, gpos>>

\* result_generator = pred_func(*args, **kwargs): no body code runs yet
PrologCall ==
    /\ pc = "body" /\ strat = "p_prolog"
    /\ gpos' = 1
    /\ pc' = "drain"
    /\ log' = Append(log, Event("body", idx, "generator"))
    /\ UNCHANGED <<program, registry, wrappers, handles, globals, declared, prev, invoked, inner, strat, name, args, idx,
                   guard_ok, acc, solutions, cut_encountered, result>>

\* one turn of `for result in result_generator` with its try/except
PrologDrain ==
    /\ pc = "drain" /\ strat = "p_prolog"
    /\ inner.at = 0
    /\ LET it == NextItem(BodyScript(definitions[idx].body, args), gpos, acc) IN
       /\ it.kind # "call"
       /\ acc' = EffectsKept(acc, it.acc, IF it.kind = "raise" THEN it.val.v ELSE "ok")
       /\ CASE it.kind = "item" ->
                 /\ cut_encountered' = CutFlag(cut_encountered, it.val)
                 /\ solutions' = Collect(solutions, it.val)
                 /\ gpos' = it.pos
                 /\ log' = Append(log, Event("item", idx,
                        IF it.val = PREDICATE_CUT_SENTINEL THEN "cut" ELSE "value"))
                 /\ UNCHANGED <<pc, idx, result>>
            [] it.kind = "stop" ->
                 /\ Continue
                 /\ gpos' = 0
                 /\ log' = Append(log, Event("item", idx, "stop"))
                 /\ UNCHANGED <<cut_encountered, solutions>>
            [] it.kind = "raise" ->
                 /\ IF PrologOnRaise(it.val.v) = "continue"
                    THEN Continue
                    ELSE Propagate /\ UNCHANGED idx
                 /\ gpos' = 0
                 /\ log' = Append(log, Event("item", idx, it.val.v))
                 /\ cut_encountered' = CutAfterRaise(cut_encountered, it.val.v)
                 /\ UNCHANGED solutions
    /\ UNCHANGED <<program, registry, wrappers, handles, globals, declared, prev, invoked, inner, strat, name, args, guard_ok>>

\* the body, resumed by the drain, calls a p_prolog predicate: the call
\* runs to its return before the body can yield anything
PrologNestedCall ==
    /\ pc = "drain" /\ strat = "p_prolog"
    /\ inner.at = 0
    /\ LET script == BodyScript(definitions[idx].body, args)
           it == NextItem(script, gpos, acc) IN
       /\ it.kind = "call"
       /\ \E r \in {NestedCall(script[it.pos][2], script[it.pos][3],
                                 [sols |-> solutions, cut |-> cut_encountered])} :
          /\ inner' = [at |-> it.pos, rest |-> r.sols, result |-> r.sols, cut |-> r.cut]
          /\ cut_encountered' = CutAfterCall(cut_encountered, r.cut)
          /\ solutions' = SolutionsAfterCall(solutions, r.sols)
       /\ acc' = it.acc
       /\ gpos' = it.pos
       /\ log' = Append(log, Event("call", idx, "returned"))
    /\ UNCHANGED <<program, registry, wrappers, handles, globals, declared, prev, invoked,
                   pc, strat, name, args, idx, guard_ok, result>>

\* `for res in find_path(...): yield res` in a body: one element of the
\* returned list is yielded to the drain, or the list is at its end and
\* the body goes on after the loop
PrologNestedYield ==
    /\ pc = "drain" /\ strat = "p_prolog"
    /\ inner.at # 0
    /\ IF inner.rest = << >>
       THEN /\ gpos' = inner.at + 1
            /\ inner' = [inner EXCEPT !.at = 0]
            /\ UNCHANGED <<cut_encountered, solutions, log>>
       ELSE /\ cut_encountered' = CutFlag(cut_encountered, Head(inner.rest))
            /\ solutions' = Collect(solutions, Head(inner.rest))
            /\ log' = Append(log, Event("item", idx,
                   IF Head(inner.rest) = PREDICATE_CUT_SENTINEL THEN "cut" ELSE "value"))
            /\ inner' = [inner EXCEPT !.rest = Tail(@)]
            /\ UNCHANGED gpos
    /\ UNCHANGED <<program, registry, wrappers, handles, globals, declared, prev, invoked,
                   pc, strat, name, args, idx, guard_ok, acc, result>>

(* ------------------------------ the caller ----------------------------- *)
\* the caller has the returned value and goes on with the script
Finish ==
    /\ pc = "done"
    /\ pc' = "idle"
    /\ strat' = "none"
    /\ name' = "none"
    /\ args' = << >>
    /\ idx' = 0
    /\ guard_ok' = FALSE
    /\ acc' = << >>
    /\ solutions' = << >>
    /\ cut_encountered' = FALSE
    /\ gpos' = 0
    /\ result' = NoResult
    /\ log' = << >>
    /\ inner' = NoInner
    /\ prev' = NoCall
    /\ UNCHANGED <<program, registry, wrappers, handles, globals, declared, invoked>>

Next ==
    \/ \E s \in Strategies, n \in Names :
          \E c \in NextClauses(s, n) : Register(s, n, c)
    \/ \E s \in Strategies, n \in Names :
          \E a \in ArgsOf(n) : Invoke(s, n, a)
    \/ PredicateLoop
    \/ PredicateBody
    \/ PrinciplesLoop
    \/ PrinciplesBody
    \/ PrologLoop
    \/ PrologCall
    \/ PrologDrain
    \/ PrologNestedCall
    \/ PrologNestedYield
    \/ Finish

Spec == Init /\ [][Next]_vars

\* the same scripts with a caller that also makes calls back to back
NextRepeat ==
    \/ \E s \in Strategies, n \in Names :
          \E c \in NextClauses(s, n) : RegisterRepeat(s, n, c)
    \/ \E s \in Strategies, n \in Names :
          \E a \in ArgsOf(n) : Invoke(s, n, a)
    \/ \E s \in Strategies, n \in Names :
          \E a \in ArgsOf(n) : Again(s, n, a)
    \/ PredicateLoop
    \/ PredicateBody
    \/ PrinciplesLoop
    \/ PrinciplesBody
    \/ PrologLoop
    \/ PrologCall
    \/ PrologDrain
    \/ PrologNestedCall
    \/ PrologNestedYield
    \/ Finish

SpecRepeat == Init /\ [][NextRepeat]_vars

\* the same scripts, with the first call of every handle noted
NextLate ==
    \/ \E s \in Strategies, n \in Names :
          \E c \in NextClauses(s, n) : RegisterRepeat(s, n, c)
    \/ \E s \in Strategies, n \in Names :
          \E a \in ArgsOf(n) : InvokeNoted(s, n, a)
    \/ PredicateLoop
    \/ PredicateBody
    \/ PrinciplesLoop
    \/ PrinciplesBody
    \/ PrologLoop
    \/ PrologCall
    \/ PrologDrain
    \/ PrologNestedCall
    \/ PrologNestedYield
    \/ Finish

SpecLate == Init /\ [][NextLate]_vars

\* a step of a wrapper that was called: the interpreter runs it on, there
\* is no other thread and no suspension point
Dispatch ==
    \/ PredicateLoop
    \/ PredicateBody
    \/ PrinciplesLoop
    \/ PrinciplesBody
    \/ PrologLoop
    \/ PrologCall
    \/ PrologDrain
    \/ PrologNestedCall
    \/ PrologNestedYield

SpecFair == Init /\ [][NextLate]_vars /\ WF_vars(Dispatch)

TypeOK ==
    /\ program \in Programs
    /\ pc \in {"idle", "loop", "body", "drain", "done", "raised"}
    /\ strat \in Strategies \cup {"none"}
    /\ result.kind \in {"none", "bool", "list"}
    /\ cut_encountered \in BOOLEAN
    /\ guard_ok \in BOOLEAN

(* ======================= properties of the dispatch ==================== *)
Done == pc = "done"

\* the clause's guard is absent or true on the arguments
Applicable(c, a) == GuardEval(c.guard, a) \in {"none", "true"}

\* the clause's body runs to its end on the arguments
Completes(c, a) == RunBody(BodyScript(c.body, a), 1, << >>).out = "ok"

\* the log holds an event of clause k / of a clause after k
Logged(kind, k) == \E x \in DOMAIN log : log[x][1] = kind /\ log[x][2] = k
LoggedAfter(k)  == \E x \in DOMAIN log : log[x][2] > k

\* C1: in an OrElse invocation, once a clause body has completed, the
\* invocation has returned True, and neither guard nor body of a later
\* clause has been evaluated.
C1_FirstSuccessWins ==
    strat = "predicate" =>
        \A x \in DOMAIN log :
            (log[x][1] = "body" /\ log[x][3] = "ok") =>
                /\ pc = "done"
                /\ result = BoolResult(TRUE)
                /\ x = Len(log)
                /\ ~LoggedAfter(log[x][2])

\* a clause succeeded while a later clause, whose guard is true on the
\* same arguments and whose body would complete, was left alone
C1_Witness ==
    /\ strat = "predicate" /\ pc = "done" /\ result = BoolResult(TRUE)
    /\ \E k \in 1..(Len(definitions) - 1) :
          /\ log[Len(log)] = Event("body", k, "ok")
          /\ GuardEval(definitions[k + 1].guard, args) = "true"
          /\ Completes(definitions[k + 1], args)

\* C2: an OrElse invocation returns True exactly when some clause has its
\* guard absent or true and its body completing; otherwise it returns
\* False after every clause has been tried.
C2_OrElseResult ==
    (strat = "predicate" /\ Done) =>
        /\ result.kind = "bool"
        /\ result.b <=> \E k \in 1..Len(definitions) :
                           Applicable(definitions[k], args) /\ Completes(definitions[k], args)
        /\ ~result.b => \A k \in 1..Len(definitions) : Logged("guard", k)

\* False after a guard that was false or raised and a body that failed
C2_Witness ==
    /\ strat = "predicate" /\ Done /\ result = BoolResult(FALSE)
    /\ Len(definitions) >= 2
    /\ \E x \in DOMAIN log : log[x][1] = "guard" /\ log[x][3] \in {"false", "raise"}
    /\ \E x \in DOMAIN log : log[x][1] = "body" /\ log[x][3] = PredicateFailed

\* C3: a StrictAll invocation returns True exactly when every clause has
\* its guard absent or true and its body completing; verif(10, 12, p)
\* is True with p = [1, 2, 3] and verif(12, 12, p) is False with p = [].
C3_StrictAllResult ==
    (strat = "principles" /\ Done) =>
        /\ result.kind = "bool"
        /\ result.b <=> \A k \in 1..Len(definitions) :
                           Applicable(definitions[k], args) /\ Completes(definitions[k], args)
        /\ (name = "verif" /\ args = <<IntV(10), IntV(12)>>) =>
              (result.b /\ acc = <<IntV(1), IntV(2), IntV(3)>>)
        /\ (name = "verif" /\ args = <<IntV(12), IntV(12)>>) =>
              (~result.b /\ acc = << >>)

\* verif(10, 12, p) has returned
C3_Witness ==
    /\ strat = "principles" /\ Done /\ name = "verif"
    /\ args = <<IntV(10), IntV(12)>>
    /\ result = BoolResult(TRUE)
    /\ Len(log) = 6

\* C4: in a StrictAll invocation a guard that returned false ends the
\* invocation with False: the body of that clause and every later clause
\* are left alone.
C4_FalseGuardAborts ==
    strat = "principles" =>
        \A x \in DOMAIN log :
            (log[x][1] = "guard" /\ log[x][3] = "false") =>
                /\ pc = "done"
                /\ result = BoolResult(FALSE)
                /\ x = Len(log)
                /\ ~Logged("body", log[x][2])
                /\ ~LoggedAfter(log[x][2])

\* the guard at position k was false although clause k's body and the
\* clause after it would have passed
C4_Witness ==
    /\ strat = "principles" /\ Done /\ result = BoolResult(FALSE)
    /\ \E k \in 1..(Len(definitions) - 1) :
          /\ log[Len(log)] = Event("guard", k, "false")
          /\ Completes(definitions[k], args)
          /\ Applicable(definitions[k + 1], args)
          /\ Completes(definitions[k + 1], args)

\* the item next(result_generator) produces in the current state
Pending == NextItem(BodyScript(definitions[idx].body, args), gpos, acc)

Draining == pc = "drain" /\ strat = "p_prolog"

IsCut(x) == x = PREDICATE_CUT_SENTINEL
NotCut(x) == x # PREDICATE_CUT_SENTINEL

\* C5: in a Backtracking invocation, once clause k has yielded the cut
\* marker no later clause is evaluated, clause k is still drained, and each
\* value it yields after the marker is appended to the solutions.
C5_CutIsForwardOnly ==
    /\ [](strat = "p_prolog" =>
            \A x \in DOMAIN log :
                (log[x][1] = "item" /\ log[x][3] = "cut") =>
                    /\ ~LoggedAfter(log[x][2])
                    /\ x = Len(log) => (pc = "drain" /\ idx = log[x][2]))
    /\ [][(Draining /\ cut_encountered /\ Pending.kind = "item" /\ NotCut(Pending.val)) =>
            /\ solutions' = Append(solutions, Pending.val)
            /\ pc' = "drain" /\ idx' = idx /\ cut_encountered']_vars

\* the invocation returned after a cut: the value the cutting clause
\* yielded after the marker is the last solution, and a clause that
\* follows it, applicable on these arguments, was not tried
C5_Witness ==
    /\ strat = "p_prolog" /\ Done /\ cut_encountered
    /\ \E k \in 1..(Len(definitions) - 1) :
          /\ definitions[k].body = "gen_y_cut_y"
          /\ Logged("item", k)
          /\ Applicable(definitions[k + 1], args)
          /\ ~LoggedAfter(k)
    /\ Len(result.l) >= 2
    /\ result.l[Len(result.l)] = IntV(3)

\* the items a generator body yields before it ends or raises
RECURSIVE ItemsOf(_, _)
ItemsOf(script, k) ==
    IF k > Len(script) \/ script[k][1] = "raise" THEN << >>
    ELSE IF script[k][1] = "yield" THEN <<script[k][2]>> \o ItemsOf(script, k + 1)
    ELSE IF script[k][1] = "call"
         THEN NestedCall(script[k][2], script[k][3], [sols |-> << >>, cut |-> FALSE]).sols
              \o ItemsOf(script, k + 1)
    ELSE ItemsOf(script, k + 1)

\* the non-cut values clause k yields on the arguments of the invocation
ValuesOf(k) == SelectSeq(ItemsOf(BodyScript(definitions[k].body, args), 1), NotCut)

\* the values of the clauses whose body was called, from clause k on
RECURSIVE TriedValues(_)
TriedValues(k) ==
    IF k > Len(definitions) THEN << >>
    ELSE (IF Logged("body", k) THEN ValuesOf(k) ELSE << >>) \o TriedValues(k + 1)

\* C6: a Backtracking invocation returns a list: the values of the tried
\* clauses, clause after clause in registration order, each clause's
\* values in the order yielded; the empty list if none yielded a value.
C6_SolutionsInOrder ==
    (strat = "p_prolog" /\ Done) =>
        /\ result.kind = "list"
        /\ result.l = TriedValues(1)
        /\ (\A k \in 1..Len(definitions) : Logged("body", k) => ValuesOf(k) = << >>)
              => result.l = << >>

\* two tried clauses contributed different values, one of them failed
\* after its yield
C6_Witness ==
    /\ strat = "p_prolog" /\ Done
    /\ Len(result.l) >= 2
    /\ result.l[1] # result.l[2]
    /\ \E j, k \in 1..Len(definitions) :
          /\ j < k /\ Logged("body", j) /\ Logged("body", k)
          /\ ValuesOf(j) # << >> /\ ValuesOf(k) # << >>
          /\ definitions[j].body \in {"gen_y_fail", "gen_y_fault"}

IsRaise(e) == e[1] = "item" /\ e[3] \in {PredicateFailed, OtherException}

\* C7: when draining clause k raises PredicateFailed or another exception,
\* the solutions collected so far stay, clause k is not drained again, and
\* the loop moves to clause k+1, which it tries unless the cut flag is set.
C7_FailureKeepsPartialDrain ==
    /\ [][(Draining /\ Pending.kind = "raise") =>
            /\ solutions' = solutions
            /\ pc' = "loop" /\ idx' = idx + 1 /\ gpos' = 0]_vars
    /\ [][(pc = "loop" /\ strat = "p_prolog" /\ idx <= Len(definitions)) =>
            IF cut_encountered
            THEN pc' = "done" /\ log' = log /\ result' = ListResult(solutions)
            ELSE \E g \in {"none", "true", "false", "raise"} :
                    log' = Append(log, Event("guard", idx, g))]_vars
    /\ [](strat = "p_prolog" =>
            \A x, y \in DOMAIN log :
                (x < y /\ IsRaise(log[x])) => log[y][2] > log[x][2])

\* a clause failed after a yield, another raised an unexpected exception
\* after a yield, and the clause after each was tried with the values kept
C7_Witness ==
    /\ strat = "p_prolog" /\ Done
    /\ \E x, y \in DOMAIN log :
          /\ x > 1 /\ y > 1
          /\ log[x] = Event("item", log[x][2], PredicateFailed)
          /\ log[y] = Event("item", log[y][2], OtherException)
          /\ log[x - 1] = Event("item", log[x][2], "value")
          /\ log[y - 1] = Event("item", log[y][2], "value")
          /\ Logged("guard", log[x][2] + 1)
          /\ Logged("guard", log[y][2] + 1)
    /\ Len(result.l) >= 2

\* C8: the cut sentinel is never in the solution accumulator nor in the
\* returned list.
C8_NoSentinelInSolutions ==
    /\ \A x \in DOMAIN solutions : NotCut(solutions[x])
    /\ \A x \in DOMAIN result.l : NotCut(result.l[x])

\* a list with values from before and after a cut was returned
C8_Witness ==
    /\ strat = "p_prolog" /\ Done /\ cut_encountered
    /\ \E x \in DOMAIN log : log[x][1] = "item" /\ log[x][3] = "cut"
    /\ Len(result.l) >= 2

\* the clauses registered under name n of strategy s, in program order
RECURSIVE DeclaredFor(_, _, _)
DeclaredFor(s, n, k) ==
    IF k > Len(declared) THEN << >>
    ELSE (IF declared[k][1] = s /\ declared[k][2] = n THEN <<declared[k][3]>> ELSE << >>)
         \o DeclaredFor(s, n, k + 1)

\* C9: an invocation tries the clauses in the order they were registered:
\* the clause positions in the effect log never decrease, a body follows
\* its own guard, and position k is the k-th clause registered.
C9_RegistrationOrder ==
    pc # "idle" =>
        LET R == DeclaredFor(strat, name, 1) IN
        /\ \A x, y \in DOMAIN log : x < y => log[x][2] <= log[y][2]
        /\ \A x \in DOMAIN log :
              /\ log[x][2] \in 1..Len(R)
              /\ definitions[log[x][2]] = R[log[x][2]]
              /\ log[x][1] # "guard" =>
                    \E w \in 1..(x - 1) : log[w][1] = "guard" /\ log[w][2] = log[x][2]
              /\ log[x][1] = "guard" =>
                    \A w \in 1..log[x][2] : Logged("guard", w)

\* three different clauses were registered and all three were tried
C9_Witness ==
    /\ Done /\ Len(definitions) = 3
    /\ definitions[1] # definitions[2]
    /\ definitions[2] # definitions[3]
    /\ definitions[1] # definitions[3]
    /\ \A k \in 1..3 : Logged("guard", k)
    /\ Logged("body", 1) /\ Logged("body", 3)

IsFault(e) ==
    \/ e[1] = "guard" /\ e[3] = "raise"
    \/ e[1] \in {"body", "item"} /\ e[3] = OtherException

\* C10: no exception of a guard or body leaves an invocation: it returns
\* a boolean (OrElse, StrictAll) or a list (Backtracking), and the clause
\* that raised counts as failed: OrElse and Backtracking move to the next
\* clause, StrictAll returns False.
C10_FaultsContained ==
    /\ pc # "raised"
    /\ Done => result.kind = (IF strat = "p_prolog" THEN "list" ELSE "bool")
    /\ (log # << >> /\ IsFault(log[Len(log)])) =>
          IF strat = "principles"
          THEN Done /\ result = BoolResult(FALSE)
          ELSE /\ idx = log[Len(log)][2] + 1
               /\ \/ pc = "loop"
                  \/ Done /\ (idx > Len(definitions) \/ cut_encountered)

\* an invocation returned although a guard and a body raised
C10_Witness ==
    /\ Done /\ strat # "principles"
    /\ \E x \in DOMAIN log : log[x][1] = "guard" /\ log[x][3] = "raise"
    /\ \E x \in DOMAIN log : log[x][1] \in {"body", "item"} /\ log[x][3] = OtherException

\* C11: a guard that raises is handled as a guard that returns false: the
\* clause's body is not run; OrElse and Backtracking go on with the next
\* clause, StrictAll returns False at once and evaluates nothing more.
C11_GuardFaultIsFalse ==
    \A x \in DOMAIN log :
        (log[x][1] = "guard" /\ log[x][3] \in {"raise", "false"}) =>
            LET k == log[x][2] IN
            /\ ~Logged("body", k)
            /\ IF strat = "principles"
               THEN Done /\ result = BoolResult(FALSE) /\ x = Len(log)
               ELSE /\ x < Len(log) => log[x + 1] [2] = k + 1
                    /\ x = Len(log) =>
                          /\ idx = k + 1
                          /\ pc = "loop" \/ (Done /\ idx > Len(definitions))

\* numbers_relation(1, 2, 3): the three two-argument guards raised, the
\* unguarded clause was tried after them and the result is False
C11_Witness ==
    /\ name = "numbers_relation" /\ Done /\ result = BoolResult(FALSE)
    /\ Arity(args) = 3
    /\ \A k \in 1..3 : \E x \in DOMAIN log : log[x] = Event("guard", k, "raise")
    /\ log[Len(log)] = Event("body", 4, PredicateFailed)

IsPrefix(s, t) == Len(s) <= Len(t) /\ SubSeq(t, 1, Len(s)) = s

\* what a body appends to the caller's list before it ends or raises
RECURSIVE EffectsOf(_, _)
EffectsOf(script, k) ==
    IF k > Len(script) \/ script[k][1] = "raise" THEN << >>
    ELSE IF script[k][1] = "append" THEN <<script[k][2]>> \o EffectsOf(script, k + 1)
    ELSE EffectsOf(script, k + 1)

\* the effects of the bodies that were called, from clause k on
RECURSIVE CalledEffects(_)
CalledEffects(k) ==
    IF k > Len(definitions) THEN << >>
    ELSE (IF Logged("body", k)
          THEN EffectsOf(BodyScript(definitions[k].body, args), 1) ELSE << >>)
         \o CalledEffects(k + 1)

\* C12: what a body did to the caller's list before it failed is never
\* undone: between clauses and at the return the list holds the effects of
\* every body called so far, failed ones included, and no step of an
\* invocation shortens it; verif(10, 14, p) returns False with p = [1].
C12_EffectsNotUndone ==
    /\ [](pc \in {"loop", "done"} => acc = CalledEffects(1))
    /\ []((Done /\ name = "verif" /\ args = <<IntV(10), IntV(14)>>) =>
             (result = BoolResult(FALSE) /\ acc = <<IntV(1)>>))
    /\ [][(pc = "loop" \/ pc = "body" \/ pc = "drain") => IsPrefix(acc, acc')]_vars

\* a StrictAll invocation failed at its second clause: the list holds the
\* marker of the first clause and what the second did before it failed
C12_Witness ==
    /\ strat = "principles" /\ Done /\ result = BoolResult(FALSE)
    /\ Len(definitions) >= 2
    /\ definitions[1].body = "succeed"
    /\ definitions[2].body = "effect_fail"
    /\ log[Len(log)] = Event("body", 2, PredicateFailed)
    /\ acc = <<IntV(1), IntV(3)>>

\* the wrapper objects made for name n by decorator s
HandlesOf(s, n) == { h \in DOMAIN handles : handles[h] = <<s, n>> }

\* the step is a registration
Registering == declared' # declared

\* C13: within one strategy a name has exactly one wrapper object, made
\* at its first registration; a later registration under that strategy
\* makes no new object, hands the same object back to the script and
\* appends its clause to the list that object dispatches over.
C13_OneHandlePerName ==
    /\ [](\A s \in Strategies :
            /\ DOMAIN wrappers[s] = DOMAIN registry[s]
            /\ \A n \in DOMAIN registry[s] :
                  HandlesOf(s, n) = {wrappers[s][n]})
    /\ [][Registering =>
            LET e == declared'[Len(declared')]
                s == e[1]
                n == e[2]
            IN  /\ globals'[n] = wrappers'[s][n]
                /\ n \in DOMAIN registry[s] =>
                      /\ handles' = handles
                      /\ wrappers'[s][n] = wrappers[s][n]
                      /\ registry'[s][n] = Append(registry[s][n], e[3])]_vars

C13_Witness ==
    /\ program = "predicate_example"
    /\ Len(declared) = 7
    /\ Len(handles) = 2
    /\ Len(registry["predicate"]["numbers_relation"]) = 4
    /\ Len(registry["principles"]["verif"]) = 3
    /\ globals["verif"] = wrappers["principles"]["verif"]

\* the strategies under which name n owns a wrapper object
StrategiesOf(n) == { s \in Strategies : n \in DOMAIN wrappers[s] }

\* C14: a name owns a wrapper object under at most one strategy.
C14_OneStrategyPerName ==
    \A n \in Names :
        /\ Cardinality(StrategiesOf(n)) <= 1
        /\ Cardinality({ h \in DOMAIN handles : handles[h][2] = n }) <= 1

\* C15: the clause list of a name is the sequence of the (guard, body)
\* pairs registered under it, in registration order and with repeated
\* pairs kept; only a registration changes a clause list, no step of an
\* invocation does.
C15_ClauseListIsRegistrations ==
    /\ [](\A s \in Strategies : \A n \in DOMAIN registry[s] :
            registry[s][n] = DeclaredFor(s, n, 1))
    /\ [][~Registering => registry' = registry]_vars

\* the same pair was registered twice and an invocation went over both
C15_Witness ==
    /\ Done
    /\ Len(definitions) = 3
    /\ definitions[1] = definitions[2]
    /\ definitions[3] # definitions[1]
    /\ Logged("guard", 1) /\ Logged("guard", 2) /\ Logged("guard", 3)

\* the log position of the guard event of clause k, 0 if there is none
GuardEventOf(k) ==
    IF Logged("guard", k)
    THEN CHOOSE x \in DOMAIN log : log[x][1] = "guard" /\ log[x][2] = k
    ELSE 0

\* C17: under the three strategies a body (or a generator item) of clause
\* k is in the effect log only after a guard event of clause k of the same
\* invocation that says absent or true, and the guard is indeed absent or
\* true on the arguments; under predicate and p_prolog a guard that
\* evaluated to false leaves no body event of its clause and the dispatch
\* goes on with clause k + 1.
C17_BodyOnlyAfterGuard ==
    /\ \A x \in DOMAIN log :
          log[x][1] \in {"body", "item"} =>
              LET w == GuardEventOf(log[x][2]) IN
              /\ w \in 1..(x - 1)
              /\ log[w][3] \in {"none", "true"}
              /\ Applicable(definitions[log[x][2]], args)
    /\ strat \in {"predicate", "p_prolog"} =>
          \A k \in 1..Len(definitions) :
              (Logged("guard", k) /\ GuardEval(definitions[k].guard, args) = "false") =>
                  /\ ~Logged("body", k) /\ ~Logged("item", k)
                  /\ idx > k
                  /\ k < Len(definitions) =>
                        (Logged("guard", k + 1) \/ (pc = "loop" /\ idx = k + 1))

\* a false guard was skipped and the body of the next clause ran, under
\* OrElse
C17_Witness ==
    /\ strat = "predicate" /\ Done
    /\ Len(log) >= 3
    /\ log[1] = Event("guard", 1, "false")
    /\ log[2] = Event("guard", 2, "true")
    /\ log[3] = Event("body", 2, "ok")
    /\ result = BoolResult(TRUE)

\* the log positions where a generator handed over a value
ValueEvents == { z \in DOMAIN log : log[z][1] = "item" /\ log[z][3] = "value" }

\* C18: in a p_prolog invocation, when clause k yielded the cut marker and
\* then raised PredicateFailed or another exception, the cut is still set,
\* the exception is the last event of the invocation (no guard, body or
\* item of clauses k+1..n follows) and the returned list is the solutions
\* gathered up to the failure; find_first_positive_even([2, 3, 4]) returns
\* [2] without trying its second clause.
C18_CutSurvivesFailure ==
    /\ strat = "p_prolog" =>
          \A x, y \in DOMAIN log :
              ( /\ x < y
                /\ log[x][1] = "item" /\ log[x][3] = "cut"
                /\ log[y][1] = "item" /\ log[y][2] = log[x][2]
                /\ log[y][3] \in {PredicateFailed, OtherException} ) =>
                  /\ cut_encountered
                  /\ y = Len(log)
                  /\ pc \in {"loop", "done"}
                  /\ Len(solutions) = Cardinality(ValueEvents)
                  /\ Done => result = ListResult(solutions)
    /\ (Done /\ name = "find_first_positive_even" /\ args = <<ListV(1)>>) =>
          /\ result = ListResult(<<IntV(2)>>)
          /\ ~Logged("guard", 2)

\* clause 1 of 2 yielded a value and the cut, then raised an unexpected
\* exception, and the invocation returned that value alone
C18_Witness ==
    /\ strat = "p_prolog" /\ Done
    /\ Len(definitions) = 2
    /\ definitions[1].body = "gen_cut_fault"
    /\ Len(log) = 5
    /\ log[4] = Event("item", 1, "cut")
    /\ log[5] = Event("item", 1, OtherException)
    /\ result = ListResult(<<IntV(7)>>)

\* the clauses whose body ran to its end in this invocation
CompletedClauses == { k \in 1..Len(definitions) : \E x \in DOMAIN log : log[x] = Event("body", k, "ok") }

\* the first of: divisible by 15, by 3, by 5, anything
FirstFizzCondition(i) ==
    IF i % 15 = 0 THEN 1 ELSE IF i % 3 = 0 THEN 2 ELSE IF i % 5 = 0 THEN 3 ELSE 4

\* what the four clauses print
FizzOutput(k, i) == IF k = 1 THEN StrV(8) ELSE IF k \in {2, 3} THEN StrV(4) ELSE IntV(i)

\* C20: a fizzbuzz(i) invocation with i >= 1 returns True and exactly one
\* clause body completes, the first of (divisible by 15, by 3, by 5,
\* fallback) whose condition holds for i, and only that clause prints; for
\* 1..15 the fallback is chosen for 1, 2, 4, 7, 8, 11, 13, 14, the
\* divisible-by-3 clause for 3, 6, 9, 12, the divisible-by-5 clause for
\* 5, 10 and the divisible-by-15 clause for 15.
C20_FizzbuzzSelection ==
    (Done /\ name = "fizzbuzz") =>
        LET i == args[1].v IN
        /\ result = BoolResult(TRUE)
        /\ CompletedClauses = {FirstFizzCondition(i)}
        /\ acc = <<FizzOutput(FirstFizzCondition(i), i)>>
        /\ i \in {1, 2, 4, 7, 8, 11, 13, 14} => CompletedClauses = {4}
        /\ i \in {3, 6, 9, 12} => CompletedClauses = {2}
        /\ i \in {5, 10} => CompletedClauses = {3}
        /\ i = 15 => CompletedClauses = {1}

\* fizzbuzz(15) returned after its first clause, fizzbuzz(10) after its
\* third: the state is the return of fizzbuzz(10)
C20_Witness ==
    /\ Done /\ name = "fizzbuzz"
    /\ args = <<IntV(10)>>
    /\ log[Len(log)] = Event("body", 3, "ok")
    /\ Logged("body", 1) /\ Logged("body", 2)
    /\ result = BoolResult(TRUE)

\* the caller called the same wrapper with the same arguments right before
SameCallAsBefore == prev.s = strat /\ prev.n = name /\ prev.a = args

\* C16: a call made right after a call of the same handle with the same
\* arguments, the clause list unchanged in between, returns the same
\* value (boolean or list) and goes through the same guards, bodies and
\* items with the same outcomes.
C16_RepeatedCallSameResult ==
    /\ [][(pc = "done" /\ pc' = "loop") => registry' = registry]_vars
    /\ []((Done /\ SameCallAsBefore) =>
            (result = prev.result /\ log = prev.log))

\* the second of two equal p_prolog calls returned the same two values
C16_Witness ==
    /\ Done /\ SameCallAsBefore
    /\ strat = "p_prolog"
    /\ Len(result.l) = 2
    /\ prev.result = result

\* a clause before k yielded the cut marker in this invocation
CutBefore(k) ==
    \E x \in DOMAIN log : log[x][1] = "item" /\ log[x][3] = "cut" /\ log[x][2] < k

\* C19: every p_prolog invocation enters its clause loop with no solution
\* and the cut flag unset; while it runs, the solutions are as many as the
\* values its own generators handed over, the flag is set only if one of
\* its own clauses yielded the marker, and when it returns a clause was
\* left untried only after a cut of this same invocation, whatever the
\* call before it (of this or another predicate) collected or cut.
C19_CutAndSolutionsPerInvocation ==
    strat = "p_prolog" =>
        /\ (pc = "loop" /\ idx = 1) => (solutions = << >> /\ ~cut_encountered)
        /\ pc # "idle" =>
              /\ Len(solutions) = Cardinality(ValueEvents)
              /\ cut_encountered => CutBefore(Len(definitions) + 1)
        /\ Done =>
              /\ result = ListResult(solutions)
              /\ \A k \in 1..Len(definitions) : ~Logged("guard", k) => CutBefore(k)

\* find_all_odd_numbers([1, 2, 3, 4]) called right after
\* find_first_positive_even([2, 3, 4]), which cut and returned [2]: both
\* clauses were tried and the result is [1, 3, 10, 30]
C19_Witness ==
    /\ Done /\ name = "find_all_odd_numbers"
    /\ prev.n = "find_first_positive_even"
    /\ prev.cut
    /\ prev.result = ListResult(<<IntV(2)>>)
    /\ ~cut_encountered
    /\ Logged("guard", 2)
    /\ result = ListResult(<<IntV(1), IntV(3), IntV(10), IntV(30)>>)

\* the invocation is the returned call find_in_list(item, my_list)
FindInListReturned(item) ==
    Done /\ name = "find_in_list" /\ args = <<item, ListV(4)>>

\* C21: on my_list = [1, 2, -3, 4, -5.0, 6] find_in_list returns [-3] for
\* the item -3 (second clause, which then cuts), [4] for the item 4 (first
\* clause; the second fails its sign test and sets no cut) and [] for the
\* items -4 and 6.5 (both bodies fail).
C21_FindInListResults ==
    /\ FindInListReturned(IntV(-3)) =>
          /\ result = ListResult(<<IntV(-3)>>)
          /\ cut_encountered
          /\ log[Len(log)] = Event("item", 2, "stop")
    /\ FindInListReturned(IntV(4)) =>
          /\ result = ListResult(<<IntV(4)>>)
          /\ ~cut_encountered
          /\ log[Len(log)] = Event("item", 2, PredicateFailed)
    /\ FindInListReturned(IntV(-4)) => result = ListResult(<< >>)
    /\ FindInListReturned(FloatV(65)) => result = ListResult(<< >>)
    /\ (Done /\ name = "find_in_list" /\ result = ListResult(<< >>)) =>
          /\ Logged("body", 1) /\ Logged("body", 2)
          /\ ~\E x \in DOMAIN log : log[x][3] = "value"

\* find_in_list(4, my_list) returned [4] after its second clause failed
C21_Witness ==
    /\ FindInListReturned(IntV(4))
    /\ result = ListResult(<<IntV(4)>>)
    /\ Logged("item", 1) /\ Logged("item", 2)

\* a call of check_structure has returned
CheckStructureReturned == Done /\ name = "check_structure"

\* the diagnostic string is in the caller's collection
Diagnosed == \E k \in DOMAIN acc : acc[k] = NoStructureFound

\* C22 as stated: every invocation of check_structure, whatever the shape
\* of its arguments, returns True, and the diagnostic string is in the
\* collection whenever none of the first four clauses completed.
C22_FallbackAlwaysTrue ==
    CheckStructureReturned =>
        /\ result = BoolResult(TRUE)
        /\ CompletedClauses \cap (1..4) = {} => Diagnosed

\* C22 amended: every invocation of check_structure with two arguments of
\* which the second is a list returns True, whatever the first argument;
\* when none of the first four clauses completed the collection is the
\* diagnostic string followed by the value, and else it does not hold
\* the diagnostic string.
C22_FallbackTrueOnListCalls ==
    (CheckStructureReturned /\ Arity(args) = 2 /\ args[2] = CallerList) =>
        /\ result = BoolResult(TRUE)
        /\ CompletedClauses \cap (1..4) = {} =>
              (CompletedClauses = {5} /\ acc = <<NoStructureFound, args[1]>>)
        /\ CompletedClauses \cap (1..4) # {} =>
              (~Diagnosed /\ ~Logged("body", 5))

\* check_structure(42, programs): the four guards were false and the
\* fallback left the diagnostic string and 42 in programs
C22_Witness ==
    /\ CheckStructureReturned
    /\ args = <<IntV(42), CallerList>>
    /\ \A k \in 1..4 : \E x \in DOMAIN log : log[x] = Event("guard", k, "false")
    /\ result = BoolResult(TRUE)
    /\ acc = <<NoStructureFound, IntV(42)>>

\* the log positions where the generator of clause k handed over a value
ValueEventsOf(k) == { x \in DOMAIN log : log[x] = Event("item", k, "value") }

\* the positive even elements of a list of integers
PositiveEvens(numbers) ==
    { k \in DOMAIN numbers : numbers[k] > 0 /\ numbers[k] % 2 = 0 }

\* C23: p_fail() in the loop of the first clause of
\* find_first_positive_even gives up the current element only: the clause
\* goes on with the elements that follow, so that when the invocation has
\* returned the clause has yielded every positive even element of the list.
C23_FailBacktracksWithinClause ==
    (Done /\ name = "find_first_positive_even") =>
        Cardinality(ValueEventsOf(1))
            = Cardinality(PositiveEvens(ListContents(args[1].v)))

\* the step is the return of a call made by the running body
NestedReturn == inner.at = 0 /\ inner'.at # 0

\* C24: when a p_prolog body calls a p_prolog predicate, the return of the
\* call leaves the cut flag and the solutions of the calling invocation as
\* they were; the list returned by the call never holds the cut marker;
\* the calling invocation has exactly the values its own drain received
\* and its flag is set only if its own drain received the marker.
\* search(1) returns [10, 20, 31] although the call search(0) cut, and
\* find_path([1, [2, 3], 4], 3) returns [(3, 1)].
C24_NestedCallOwnState ==
    /\ [][NestedReturn =>
            (cut_encountered' = cut_encountered /\ solutions' = solutions)]_vars
    /\ []((strat = "p_prolog" /\ pc # "idle") =>
            /\ \A k \in DOMAIN inner.result : inner.result[k] # PREDICATE_CUT_SENTINEL
            /\ Len(solutions) = Cardinality(ValueEvents)
            /\ cut_encountered => CutBefore(Len(definitions) + 1))
    /\ []((Done /\ name = "search" /\ args = <<IntV(1)>>) =>
            result = ListResult(<<IntV(10), IntV(20), IntV(31)>>))
    /\ []((Done /\ name = "find_path" /\ args = <<ListV(6), IntV(3)>>) =>
            result = ListResult(<<PairV(3, 1)>>))

\* search(1) has returned: the call search(0) made by its first clause cut
\* after 10 and returned [10, 20]; the flag of search(1) is unset and its
\* third clause was tried
C24_Witness ==
    /\ Done /\ name = "search" /\ args = <<IntV(1)>>
    /\ inner.cut
    /\ inner.result = <<IntV(10), IntV(20)>>
    /\ ~cut_encountered
    /\ Logged("item", 3)
    /\ result = ListResult(<<IntV(10), IntV(20), IntV(31)>>)

\* the handle of the running invocation
RunningHandle == wrappers[strat][name]

\* the decorator applications under the running name made after its handle
\* was called for the first time
LateApplications ==
    IF RunningHandle \notin DOMAIN invoked THEN {}
    ELSE { k \in DOMAIN declared :
             /\ k > invoked[RunningHandle]
             /\ declared[k][1] = strat
             /\ declared[k][2] = name }

\* their positions among the clauses registered under the running name
LatePositions ==
    LET R == DeclaredFor(strat, name, 1)
    IN  (Len(R) - Cardinality(LateApplications) + 1)..Len(R)

\* the strategy of the running invocation gets as far as position k of
\* the clauses R on the arguments of the invocation
Reached(R, k) ==
    CASE strat = "predicate" ->
            \A j \in 1..(k - 1) : ~(Applicable(R[j], args) /\ Completes(R[j], args))
      [] strat = "principles" ->
            \A j \in 1..(k - 1) : Applicable(R[j], args) /\ Completes(R[j], args)
      [] OTHER -> ~CutBefore(k)

\* C25 as stated: a clause registered under a name after the name's handle
\* was invoked has its guard evaluated by every later invocation that
\* returns.
C25_LateClauseAlwaysTried ==
    Done => \A k \in LatePositions : Logged("guard", k)

\* C25: a clause registered under a name after the name's handle was
\* invoked is in the list every later invocation goes through, at its
\* registration position, after the clauses registered before it; the
\* invocation evaluates its guard exactly when the strategy gets that far
\* (OrElse: no earlier clause succeeded, StrictAll: every earlier clause
\* succeeded, Backtracking: no earlier clause yielded the cut marker).
C25_LateClauseTriedWhenReached ==
    Done =>
        LET R == DeclaredFor(strat, name, 1) IN
        \A k \in LatePositions :
            /\ registry[strat][name][k] = R[k]
            /\ Logged("guard", k) <=> Reached(R, k)
            /\ \A x \in DOMAIN log :
                  (log[x][1] = "guard" /\ log[x][2] = k) =>
                      log[x] = Event("guard", k, GuardEval(R[k].guard, args))

\* the handle was called when its name had one clause, a second clause
\* was registered afterwards, and a later invocation went past the first
\* clause and ran the body of the second
C25_Witness ==
    /\ Done
    /\ RunningHandle \in DOMAIN invoked
    /\ Len(DeclaredFor(strat, name, 1)) = 2
    /\ LatePositions = {2}
    /\ Logged("guard", 1)
    /\ Logged("body", 2)

\* the events of kind `kind` clause k has in the log of the invocation
EventsOf(kind, k) == {x \in DOMAIN log : log[x][1] = kind /\ log[x][2] = k}

\* the wrapper is between its call and its return
Running == pc \in {"loop", "body", "drain"}

\* C26: with guards and bodies that terminate and no registration during
\* the dispatch, every invocation comes to its end (a return, or an
\* exception that leaves the wrapper), and at every moment of it each
\* clause of the list has had its guard evaluated at most once and its
\* body run at most once, a body only after its own guard.
C26_TerminatesWithoutRetry ==
    /\ [](pc # "idle" =>
            /\ \A x \in DOMAIN log : log[x][2] \in 1..Len(registry[strat][name])
            /\ \A k \in 1..Len(registry[strat][name]) :
                  /\ Cardinality(EventsOf("guard", k)) <= 1
                  /\ Cardinality(EventsOf("body", k)) <= 1
                  /\ Cardinality(EventsOf("body", k)) <= Cardinality(EventsOf("guard", k)))
    /\ (Running ~> (pc \in {"done", "raised"}))

\* a Backtracking invocation over two clauses returned: the first clause
\* failed while it was drained, the second was drained to its end, and
\* each has one guard event and one body event
C26_Witness ==
    /\ Done /\ strat = "p_prolog"
    /\ Len(registry[strat][name]) = 2
    /\ \E x \in DOMAIN log : log[x] = Event("item", 1, PredicateFailed)
    /\ \E x \in DOMAIN log : log[x] = Event("item", 2, "stop")
    /\ \A k \in 1..2 : Cardinality(EventsOf("guard", k)) = 1
                        /\ Cardinality(EventsOf("body", k)) = 1
====
